---- MODULE Spec2Model ----
(***************************************************************************)
(* hypia: hyperspectral image augmentation.                                *)
(*                                                                         *)
(* The model follows src/hypia/functionals.py (the functional transforms)  *)
(* and src/hypia/transforms.py (Compose and the configuration classes).    *)
(*                                                                         *)
(* An image is a numpy array: a VIEW (shape, axis order, offsets, steps)   *)
(* onto a BUFFER of the heap.  np.moveaxis, basic slicing, np.fliplr and   *)
(* np.flipud return views of the same buffer; slice assignment writes      *)
(* through the view into the buffer; the resampling primitives (warp,      *)
(* gaussian_filter, ndimage.rotate) and arithmetic allocate a new buffer.  *)
(*                                                                         *)
(* A pixel is a tuple: <<v>> is the number v; <<id, i, j, k>> is element   *)
(* (i, j, k) of the output of the library computation recorded as entry id *)
(* of the table lib (its primitive, its parameters and its input array).   *)
(* Spline interpolation of order > 0, Gaussian blurring and rotation give  *)
(* real numbers the library computes; the table keeps them apart exactly   *)
(* when their derivations differ.                                          *)
(***************************************************************************)
EXTENDS Integers, Sequences, FiniteSets, TLC

VARIABLES
    heap,        \* the buffers of the arrays, in order of allocation
    lib,         \* the table of library computations
    layout,      \* "first" or "last": where the caller's array has its channels
    img0,        \* the caller's array, handed to Compose.__call__
    transforms,  \* Compose.transforms
    pc,          \* the number of stages Compose.__call__ has invoked
    img,         \* the local img of Compose.__call__
    status,      \* "running", "returned" or "raised"
    err,         \* the exception raised, or "none"
    trace,       \* the stages invoked, in order of invocation
    last         \* the argument, heap and table of the latest invocation

vars == <<heap, lib, layout, img0, transforms, pc, img, status, err, trace, last>>

(***************************************************************************)
(* Bounds of the model.                                                    *)
(***************************************************************************)
MaxSide == 3
MaxStages == 2

Max(a, b) == IF a >= b THEN a ELSE b
Min(a, b) == IF a <= b THEN a ELSE b

(***************************************************************************)
(* numpy arrays: buffers and views.  Indices are 0-based as in Python;     *)
(* sequences are 1-based as in TLA+.                                       *)
(***************************************************************************)
Size(shape) == shape[1] * shape[2] * shape[3]

Indices(shape) ==
    { <<a, b, c>> : a \in 0 .. shape[1] - 1, b \in 0 .. shape[2] - 1, c \in 0 .. shape[3] - 1 }

\* C-order position (1-based) of index i in an array of the given shape.
Flat(shape, i) == (i[1] * shape[2] + i[2]) * shape[3] + i[3] + 1

\* The index at C-order position k (1-based).
Unflat(shape, k) ==
    << (k - 1) \div (shape[2] * shape[3]),
       ((k - 1) \div shape[3]) % shape[2],
       (k - 1) % shape[3] >>

\* A freshly allocated array: the whole of buffer b, C-contiguous.
Whole(b, shape) ==
    [buf |-> b, shape |-> shape, ax |-> <<1, 2, 3>>, off |-> <<0, 0, 0>>, st |-> <<1, 1, 1>>]

\* The buffer coordinate that view index i addresses.
BufCoord(v, i) ==
    [a \in 1 .. 3 |-> LET k == CHOOSE k \in 1 .. 3 : v.ax[k] = a
                      IN v.off[k] + v.st[k] * i[k]]

BufPos(h, v, i) == Flat(h[v.buf].shape, BufCoord(v, i))

Read(h, v, i) == h[v.buf].data[BufPos(h, v, i)]

\* The elements of view v in C order of the view.
Contents(h, v) == [k \in 1 .. Size(v.shape) |-> Read(h, v, Unflat(v.shape, k))]

\* ndarray.transpose(order): order[k] is the (0-based) old axis of new axis k.
Transpose(v, order) ==
    [v EXCEPT !.shape = [k \in 1 .. 3 |-> v.shape[order[k] + 1]],
              !.ax = [k \in 1 .. 3 |-> v.ax[order[k] + 1]],
              !.off = [k \in 1 .. 3 |-> v.off[order[k] + 1]],
              !.st = [k \in 1 .. 3 |-> v.st[order[k] + 1]]]

NormAxis(a) == IF a < 0 THEN a + 3 ELSE a

\* np.moveaxis(a, source, destination) of a 3-axis array: a view.
moveaxis(v, source, destination) ==
    LET s == NormAxis(source)
        d == NormAxis(destination)
        rest == SelectSeq(<<0, 1, 2>>, LAMBDA n : n # s)
        order == [k \in 1 .. 3 |-> IF k - 1 = d THEN s
                                   ELSE IF k - 1 < d THEN rest[k] ELSE rest[k - 1]]
    IN Transpose(v, order)

\* Python's slice(a, b).indices(n) with step 1: negative bounds count from the
\* end, and both are clamped to the axis.
SliceStart(a, n) == IF a < 0 THEN Max(a + n, 0) ELSE Min(a, n)
SliceLen(a, b, n) == Max(SliceStart(b, n) - SliceStart(a, n), 0)

\* v[a : b] along view axis k (1-based): a view.
SliceAxis(v, k, a, b) ==
    [v EXCEPT !.shape[k] = SliceLen(a, b, v.shape[k]),
              !.off[k] = v.off[k] + v.st[k] * SliceStart(a, v.shape[k])]

\* v[a0 : b0, a1 : b1]: basic slicing of the first two axes, a view.
GetSlice(v, a0, b0, a1, b1) == SliceAxis(SliceAxis(v, 1, a0, b0), 2, a1, b1)

\* v[::-1] along view axis k: a view with a negative step.
Reverse(v, k) ==
    [v EXCEPT !.off[k] = v.off[k] + v.st[k] * (v.shape[k] - 1),
              !.st[k] = 0 - v.st[k]]

\* np.fliplr(m) is m[:, ::-1]; np.flipud(m) is m[::-1, ...].
fliplr(v) == Reverse(v, 2)
flipud(v) == Reverse(v, 1)

\* v[...] = val: every element the view addresses is overwritten in the buffer.
SetItem(h, v, val) ==
    LET hit == { BufPos(h, v, i) : i \in Indices(v.shape) }
    IN [h EXCEPT ![v.buf].data = [k \in DOMAIN @ |-> IF k \in hit THEN val ELSE @[k]]]

\* A new buffer holding data, and the array that is the whole of it.
Alloc(h, shape, data) == Append(h, [shape |-> shape, data |-> data])
NewArray(h, shape) == Whole(Len(h) + 1, shape)


(***************************************************************************)
(* Exact arithmetic on fractions p/q (q > 0), as <<p, q>>.                 *)
(***************************************************************************)
RECURSIVE Gcd(_, _)
Gcd(a, b) == IF b = 0 THEN a ELSE Gcd(b, a % b)

Abs(a) == IF a < 0 THEN 0 - a ELSE a

Frac(p, q) == LET g == Gcd(Abs(p), q) IN IF g = 0 THEN <<p, q>> ELSE <<p \div g, q \div g>>

\* Conversion of p/q to an integer dtype: truncation toward zero.
Trunc(p, q) == IF p >= 0 THEN p \div q ELSE 0 - ((0 - p) \div q)

\* C round(): to the nearest integer, halves away from zero.
RoundHalfAway(p, q) ==
    IF p >= 0 THEN (2 * p + q) \div (2 * q) ELSE 0 - ((q - 2 * p) \div (2 * q))

\* np.round: to the nearest integer, halves to the even one.
RoundHalfEven(p, q) ==
    LET fl == IF p >= 0 THEN p \div q ELSE 0 - ((q - 1 - p) \div q)
        twice == 2 * (p - fl * q)
    IN IF twice < q THEN fl
       ELSE IF twice > q THEN fl + 1
       ELSE IF fl % 2 = 0 THEN fl ELSE fl + 1

\* p/q lies exactly halfway between two integers.
IsHalf(p, q) == (2 * p) % (2 * q) = q

(***************************************************************************)
(* The table of library computations.  An entry holds the primitive, its   *)
(* parameters and its input array; equal entries share one id.             *)
(***************************************************************************)
LibEntry(prim, par, h, v) ==
    [prim |-> prim, par |-> par, shape |-> v.shape, data |-> Contents(h, v)]

LibTable(l, e) == IF \E i \in 1 .. Len(l) : l[i] = e THEN l ELSE Append(l, e)
LibId(l, e) == IF \E i \in 1 .. Len(l) : l[i] = e
               THEN CHOOSE i \in 1 .. Len(l) : l[i] = e
               ELSE Len(l) + 1

\* The output of library computation e, of the given shape, as buffer data.
LibData(l, e, shape) ==
    [k \in 1 .. Size(shape) |-> <<LibId(l, e)>> \o Unflat(shape, k)]

(***************************************************************************)
(* Outcomes of a call: a returned array, or a raised exception.            *)
(***************************************************************************)
NoArray == Whole(0, <<0, 0, 0>>)

Ok(h, l, v) == [err |-> "none", out |-> v, heap |-> h, lib |-> l]
Raise(h, l, e) == [err |-> e, out |-> NoArray, heap |-> h, lib |-> l]

\* A primitive that returns a new array of the given shape and data.
Fresh(h, l, shape, data) == Ok(Alloc(h, shape, data), l, NewArray(h, shape))

\* A primitive whose values the library computes: a new array of table pixels.
Computed(h, l, prim, par, v, shape) ==
    LET e == LibEntry(prim, par, h, v)
    IN Fresh(h, LibTable(l, e), shape, LibData(l, e, shape))

(***************************************************************************)
(* Argument values.  A size is [t |-> its Python type, v |-> its entries]; *)
(* a scale is [t |-> type, v |-> <<p, q>> for the number p/q, or           *)
(* <<p1, q1, p2, q2>> for the pair (y, x)], an int n being <<n>>.  An      *)
(* angle is a whole number of quarter turns (angle * pi / 2 radians).      *)
(***************************************************************************)
Int_(n) == [t |-> "int", v |-> <<n>>]
Tuple_(s) == [t |-> "tuple", v |-> s]
List_(s) == [t |-> "list", v |-> s]
NdArray_(s) == [t |-> "ndarray", v |-> s]

\* Is every pixel of the array a plain number?
IsNumeric(h, v) == \A i \in Indices(v.shape) : Len(Read(h, v, i)) = 1

(***************************************************************************)
(* functionals.py                                                          *)
(***************************************************************************)

\* normalise: (img - mean) / std, a new array.  The quotient is kept as a
\* number where it is a whole number, and is a library value otherwise.
normalise(h, l, v, mean, std) ==
    IF std # 0 /\ IsNumeric(h, v)
          /\ \A i \in Indices(v.shape) : (Read(h, v, i)[1] - mean) % Abs(std) = 0
    THEN Fresh(h, l, v.shape,
               [k \in 1 .. Size(v.shape) |->
                    LET d == Read(h, v, Unflat(v.shape, k))[1] - mean
                    IN <<IF std > 0 THEN Trunc(d, std) ELSE 0 - Trunc(d, 0 - std)>>])
    ELSE Computed(h, l, "normalise", <<mean, std>>, v, v.shape)

\* dst_corners = factor * (src_corners + 0.5) - 0.5 stored into an integer
\* array (np.zeros_like(src_corners)): the fraction is cut off.  The factor is
\* n_in / n_out.
DstCorner(n_in, n_out, s) == Trunc(n_in * (2 * s + 1) - n_out, 2 * n_out)

\* tform.estimate on the three corners, then the off-diagonal entries and the
\* last row are overwritten: x_src = sx * x + tx, y_src = sy * y + ty.  With an
\* output of one row or one column the corners coincide and the fit is not
\* determined (ok is FALSE).
ResizeTform(input_shape, output_shape) ==
    LET Ho == output_shape[1]
        Wo == output_shape[2]
    IN IF Ho <= 1 \/ Wo <= 1
       THEN [ok |-> FALSE, sx |-> <<0, 1>>, tx |-> 0, sy |-> <<0, 1>>, ty |-> 0]
       ELSE LET x0 == DstCorner(input_shape[2], Wo, 0)
                x2 == DstCorner(input_shape[2], Wo, Wo - 1)
                y0 == DstCorner(input_shape[1], Ho, 0)
                y1 == DstCorner(input_shape[1], Ho, Ho - 1)
            IN [ok |-> TRUE, sx |-> Frac(x2 - x0, Wo - 1), tx |-> x0,
                sy |-> Frac(y1 - y0, Ho - 1), ty |-> y0]

TformPar(t) == <<IF t.ok THEN 1 ELSE 0, t.sx[1], t.sx[2], t.tx, t.sy[1], t.sy[2], t.ty>>

\* ndi.gaussian_filter(img, sigma) with sigma = max(0, (factors - 1) / 2) per
\* axis: a copy when every sigma is 0, a blurred array otherwise.
gaussian_filter(h, l, v, input_shape, output_shape) ==
    LET sig(k) == IF output_shape[k] > 0 /\ input_shape[k] > output_shape[k]
                  THEN Frac(input_shape[k] - output_shape[k], 2 * output_shape[k])
                  ELSE <<0, 1>>
    IN IF \A k \in 1 .. 3 : sig(k)[1] = 0
       THEN Fresh(h, l, v.shape, Contents(h, v))
       ELSE Computed(h, l, "gaussian_filter", sig(1) \o sig(2) \o sig(3), v, v.shape)

\* skimage.transform.warp(img, tform, output_shape, order, preserve_range=True)
\* with the axis-aligned tform of resize, mode 'constant', cval 0.  Order 0
\* takes the pixel at the rounded source position; a position exactly halfway
\* between two pixels, and every order above 0, is the library's arithmetic.
warp(h, l, v, t, output_shape, order) ==
    LET shape == <<output_shape[1], output_shape[2], v.shape[3]>>
        col(x) == <<t.sx[1] * x + t.tx * t.sx[2], t.sx[2]>>
        row(y) == <<t.sy[1] * y + t.ty * t.sy[2], t.sy[2]>>
        exact == /\ order = 0
                 /\ t.ok
                 /\ \A x \in 0 .. shape[2] - 1 : ~IsHalf(col(x)[1], col(x)[2])
                 /\ \A y \in 0 .. shape[1] - 1 : ~IsHalf(row(y)[1], row(y)[2])
        pixel(i) == LET r == RoundHalfAway(row(i[1])[1], row(i[1])[2])
                        c == RoundHalfAway(col(i[2])[1], col(i[2])[2])
                    IN IF r < 0 \/ r >= v.shape[1] \/ c < 0 \/ c >= v.shape[2]
                       THEN <<0>>
                       ELSE Read(h, v, <<r, c, i[3]>>)
    IN IF Size(v.shape) = 0 THEN Raise(h, l, "ValueError")
       ELSE IF exact
       THEN Fresh(h, l, shape, [k \in 1 .. Size(shape) |-> pixel(Unflat(shape, k))])
       ELSE Computed(h, l, "warp", <<order>> \o TformPar(t), v, shape)

\* functionals.py, resize, lines 51-61: the target shape, or the exception.
ResizeShape(im, size) ==
    IF size.t = "int"
    THEN [err |-> "none", shape |-> <<size.v[1], size.v[1], im.shape[3]>>]
    ELSE IF size.t = "tuple" /\ Len(size.v) = 2
    THEN [err |-> "AttributeError", shape |-> <<>>]
    ELSE IF size.t = "tuple" /\ Len(size.v) = 3
    THEN IF im.shape[3] = size.v[3]
         THEN [err |-> "none", shape |-> size.v]
         ELSE [err |-> "AssertionError", shape |-> <<>>]
    ELSE [err |-> "UnboundLocalError", shape |-> <<>>]

\* FromCanonical without the final np.moveaxis(out, -1, 0).
FromCanonical_Forgotten(v, channel_pos) == v

FromCanonical(v, channel_pos) == IF channel_pos = "first" THEN moveaxis(v, 0 - 1, 0) ELSE v
ToCanonical(v, channel_pos) == IF channel_pos = "first" THEN moveaxis(v, 0, 0 - 1) ELSE v

\* Restore the caller's layout on a successful outcome.
Restore(r, channel_pos) ==
    IF r.err = "none" THEN [r EXCEPT !.out = FromCanonical(r.out, channel_pos)] ELSE r

resize(h, l, v, size, interpolation_order, anti_aliasing, channel_pos) ==
    LET im == ToCanonical(v, channel_pos)
        target == ResizeShape(im, size)
    IN IF target.err # "none" THEN Raise(h, l, target.err)
       ELSE LET blurred == IF anti_aliasing
                           THEN gaussian_filter(h, l, im, im.shape, target.shape)
                           ELSE Ok(h, l, im)
                tform == ResizeTform(im.shape, target.shape)
            IN Restore(warp(blurred.heap, blurred.lib, blurred.out, tform,
                            target.shape, interpolation_order),
                       channel_pos)

\* scale * input_shape, input_shape being a Python tuple: repetition for an
\* int, a TypeError for a float, tuple or list, an elementwise product for an
\* ndarray; then np.round, which returns an ndarray.
RescaleSize(scale, input_shape) ==
    IF scale.t = "int"
    THEN [err |-> "none",
          size |-> NdArray_([k \in 1 .. 2 * Max(scale.v[1], 0) |-> input_shape[((k - 1) % 2) + 1]])]
    ELSE IF scale.t = "ndarray"
    THEN [err |-> "none",
          size |-> NdArray_(<<RoundHalfEven(scale.v[1] * input_shape[1], scale.v[2]),
                              RoundHalfEven(scale.v[3] * input_shape[2], scale.v[4])>>)]
    ELSE [err |-> "TypeError", size |-> NdArray_(<<>>)]

rescale(h, l, v, scale, interpolation_order, anti_aliasing, channel_pos) ==
    LET input_shape == IF channel_pos = "first"
                       THEN <<v.shape[2], v.shape[3]>>
                       ELSE <<v.shape[1], v.shape[2]>>
        sz == RescaleSize(scale, input_shape)
    IN IF sz.err # "none" THEN Raise(h, l, sz.err)
       ELSE resize(h, l, v, sz.size, interpolation_order, anti_aliasing, channel_pos)

\* crop reading tl as (x, y) instead of (y, x).
crop_CornerAsXY(h, l, v, tl, height, width, channel_pos) ==
    LET im == ToCanonical(v, channel_pos)
    IN IF tl[2] + height > im.shape[1] \/ tl[1] + width > im.shape[2]
       THEN Raise(h, l, "IndexError")
       ELSE Restore(Ok(h, l, GetSlice(im, tl[2], tl[2] + height, tl[1], tl[1] + width)),
                    channel_pos)

crop(h, l, v, tl, height, width, channel_pos) ==
    LET im == ToCanonical(v, channel_pos)
    IN IF tl[1] + height > im.shape[1] \/ tl[2] + width > im.shape[2]
       THEN Raise(h, l, "IndexError")
       ELSE Restore(Ok(h, l, GetSlice(im, tl[1], tl[1] + height, tl[2], tl[2] + width)),
                    channel_pos)

\* hflip without the np.moveaxis(img, 0, -1) on entry: np.fliplr on the array as
\* the caller holds it.
hflip_LayoutIgnored(h, l, v, channel_pos) == Ok(h, l, fliplr(v))

hflip(h, l, v, channel_pos) ==
    Restore(Ok(h, l, fliplr(ToCanonical(v, channel_pos))), channel_pos)

vflip(h, l, v, channel_pos) ==
    Restore(Ok(h, l, flipud(ToCanonical(v, channel_pos))), channel_pos)

\* ndi.rotate in the plane of the first two axes, a new array; with reshape
\* the output holds the whole rotated image, so an odd number of quarter turns
\* exchanges height and width.
rotate(h, l, v, angle, reshape, interpolation_order, channel_pos) ==
    LET im == ToCanonical(v, channel_pos)
        shape == IF reshape /\ angle % 2 = 1
                 THEN <<im.shape[2], im.shape[1], im.shape[3]>>
                 ELSE im.shape
    IN Restore(Computed(h, l, "rotate",
                        <<angle, IF reshape THEN 1 ELSE 0, interpolation_order>>, im, shape),
               channel_pos)

\* erase working on a copy of the image (img = img.copy() before the assignment).
erase_OnCopy(h, l, v, tl, height, width, val, channel_pos) ==
    LET im == ToCanonical(v, channel_pos)
        copy == NewArray(h, im.shape)
        h1 == Alloc(h, im.shape, Contents(h, im))
        box == GetSlice(copy, tl[1], tl[1] + height, tl[2], tl[2] + width)
    IN Restore(Ok(SetItem(h1, box, <<val>>), l, copy), channel_pos)

erase(h, l, v, tl, height, width, val, channel_pos) ==
    LET im == ToCanonical(v, channel_pos)
        box == GetSlice(im, tl[1], tl[1] + height, tl[2], tl[2] + width)
    IN Restore(Ok(SetItem(h, box, <<val>>), l, im), channel_pos)

\* warp(img, tform.inverse, order=...) without output_shape: the input's shape.
\* warp refuses an empty image.
WarpSameShape(h, l, v, prim, par) ==
    IF Size(v.shape) = 0 THEN Raise(h, l, "ValueError")
    ELSE Computed(h, l, prim, par, v, v.shape)

shear(h, l, v, angle, interpolation_order, channel_pos) ==
    Restore(WarpSameShape(h, l, ToCanonical(v, channel_pos), "shear",
                          <<angle, interpolation_order>>),
            channel_pos)

\* scales, rotate, shear, translate: <<>> is None.
affine_transform(h, l, v, scales, rot, shr, translate, interpolation_order, channel_pos) ==
    Restore(WarpSameShape(h, l, ToCanonical(v, channel_pos), "affine_transform",
                          <<Len(scales), Len(rot), Len(shr), Len(translate)>>
                              \o scales \o rot \o shr \o translate \o <<interpolation_order>>),
            channel_pos)

\* resize_kwargs: the keyword arguments zoom hands on to resize, the others
\* taking resize's defaults.
DefaultOrder == 3

zoom(h, l, v, tl, height, width, channel_pos, resize_kwargs) ==
    LET im == ToCanonical(v, channel_pos)
        zoomed == crop(h, l, im, tl, height, width, "last")
        order == IF "interpolation_order" \in resize_kwargs.given
                 THEN resize_kwargs.interpolation_order ELSE DefaultOrder
        aa == IF "anti_aliasing" \in resize_kwargs.given
              THEN resize_kwargs.anti_aliasing ELSE FALSE
    IN IF zoomed.err # "none" THEN zoomed
       ELSE Restore(resize(zoomed.heap, zoomed.lib, zoomed.out, Tuple_(im.shape),
                           order, aa, "last"),
                    channel_pos)

stretch(h, l, v, angle, interpolation_order, anti_aliasing, channel_pos) ==
    LET im == ToCanonical(v, channel_pos)
        stretched == shear(h, l, im, angle, interpolation_order, "last")
    IN IF stretched.err # "none" THEN stretched
       ELSE Restore(resize(stretched.heap, stretched.lib, stretched.out, Tuple_(im.shape),
                           interpolation_order, anti_aliasing, "last"),
                    channel_pos)

(***************************************************************************)
(* Calls.  A stage of a pipeline is a callable: api "class" is an instance *)
(* of the configuration class of transforms.py for op, api "func" is the   *)
(* functional op called with its arguments by keyword.  given holds the    *)
(* parameters the caller supplied; the others take their defaults.         *)
(***************************************************************************)
ParamNames ==
    {"size", "scale", "tl", "height", "width", "val", "angle", "reshape",
     "interpolation_order", "anti_aliasing", "channel_pos", "mean", "std",
     "scales", "rotate", "shear", "translate"}

\* The parameters after img of each def of functionals.py, in order.
Params(op) ==
    CASE op = "normalise" -> <<"mean", "std">>
      [] op = "resize" -> <<"size", "interpolation_order", "anti_aliasing", "channel_pos">>
      [] op = "rescale" -> <<"scale", "interpolation_order", "anti_aliasing", "channel_pos">>
      [] op = "crop" -> <<"tl", "height", "width", "channel_pos">>
      [] op = "hflip" -> <<"channel_pos">>
      [] op = "vflip" -> <<"channel_pos">>
      [] op = "rotate" -> <<"angle", "reshape", "interpolation_order", "channel_pos">>
      [] op = "erase" -> <<"tl", "height", "width", "val", "channel_pos">>
      [] op = "shear" -> <<"angle", "interpolation_order", "channel_pos">>
      [] op = "affine_transform" ->
            <<"scales", "rotate", "shear", "translate", "interpolation_order", "channel_pos">>
      [] op = "zoom" -> <<"tl", "height", "width", "channel_pos">>
      [] op = "stretch" -> <<"angle", "interpolation_order", "anti_aliasing", "channel_pos">>

\* The keyword arguments a def accepts beyond its parameters (**resize_kwargs).
ExtraKeywords(op) ==
    IF op = "zoom" THEN {"interpolation_order", "anti_aliasing"} ELSE {}

\* The defaults of the defs of functionals.py; None is <<>>.  A parameter
\* without a default is always supplied.
FuncDefault(s, n) ==
    CASE n = "interpolation_order" -> DefaultOrder
      [] n = "anti_aliasing" -> FALSE
      [] n = "reshape" -> FALSE
      [] n = "channel_pos" -> "first"
      [] n \in {"scales", "rotate", "shear", "translate"} -> <<>>
      [] OTHER -> s[n]

\* The defaults of the constructors of transforms.py.
CtorDefault(s, n) ==
    CASE n = "interpolation_order" -> DefaultOrder
      [] n = "anti_aliasing" -> FALSE
      [] n = "reshape" -> FALSE
      [] n = "channel_pos" -> "first"
      [] n \in {"scales", "rotate", "shear", "translate"} -> <<>>
      [] OTHER -> s[n]

\* __init__: the constructor parameter each attribute of self is set from.
AttrParam(a) ==
    CASE a = "interp" -> "interpolation_order"
      [] a = "aa" -> "anti_aliasing"
      [] a = "cp" -> "channel_pos"
      [] a = "h" -> "height"
      [] a = "w" -> "width"
      [] a = "v" -> "val"
      [] OTHER -> a

\* __call__: the attributes of self each class hands to its functional after
\* img, positionally, in order.
CallAttrs(op) ==
    CASE op = "normalise" -> <<"mean", "std">>
      [] op = "resize" -> <<"size", "interp", "aa", "cp">>
      [] op = "rescale" -> <<"scale", "interp", "aa", "cp">>
      [] op = "crop" -> <<"tl", "h", "w", "cp">>
      [] op = "hflip" -> <<"cp">>
      [] op = "vflip" -> <<"cp">>
      [] op = "rotate" -> <<"angle", "reshape", "interp", "cp">>
      [] op = "erase" -> <<"tl", "h", "w", "v", "cp">>
      [] op = "shear" -> <<"angle", "interp", "cp">>
      [] op = "affine_transform" ->
            <<"scales", "rotate", "shear", "translate", "interp", "cp">>
      [] op = "zoom" -> <<"tl", "h", "w", "cp", "interp", "aa">>
      [] op = "stretch" -> <<"angle", "interp", "aa", "cp">>

\* The value of self.a of the configured object s.
SelfAttr(s, a) ==
    LET n == AttrParam(a) IN IF n \in s.given THEN s[n] ELSE CtorDefault(s, n)

\* The arguments of a functional called with the caller's keywords.
BoundByKeyword(s) ==
    [n \in ParamNames |-> IF n \in s.given THEN s[n] ELSE FuncDefault(s, n)]

\* The arguments of a functional called by the class: positional argument i
\* binds parameter i.
BoundByPosition(s) ==
    LET ps == Params(s.op)
        as == CallAttrs(s.op)
    IN [n \in ParamNames |->
            IF \E i \in 1 .. Len(ps) : ps[i] = n /\ i <= Len(as)
            THEN SelfAttr(s, as[CHOOSE i \in 1 .. Len(ps) : ps[i] = n])
            ELSE FuncDefault(s, n)]

NoKeywords == [given |-> {}, interpolation_order |-> DefaultOrder, anti_aliasing |-> FALSE]

Keywords(s) ==
    [given |-> s.given \cap ExtraKeywords(s.op),
     interpolation_order |-> s.interpolation_order,
     anti_aliasing |-> s.anti_aliasing]

\* The body of functional op on array v with bound arguments b.
Dispatch(op, h, l, v, b, kw) ==
    CASE op = "normalise" -> normalise(h, l, v, b["mean"], b["std"])
      [] op = "resize" ->
            resize(h, l, v, b["size"], b["interpolation_order"], b["anti_aliasing"],
                   b["channel_pos"])
      [] op = "rescale" ->
            rescale(h, l, v, b["scale"], b["interpolation_order"], b["anti_aliasing"],
                    b["channel_pos"])
      [] op = "crop" -> crop(h, l, v, b["tl"], b["height"], b["width"], b["channel_pos"])
      [] op = "hflip" -> hflip(h, l, v, b["channel_pos"])
      [] op = "vflip" -> vflip(h, l, v, b["channel_pos"])
      [] op = "rotate" ->
            rotate(h, l, v, b["angle"], b["reshape"], b["interpolation_order"],
                   b["channel_pos"])
      [] op = "erase" ->
            erase(h, l, v, b["tl"], b["height"], b["width"], b["val"], b["channel_pos"])
      [] op = "shear" -> shear(h, l, v, b["angle"], b["interpolation_order"], b["channel_pos"])
      [] op = "affine_transform" ->
            affine_transform(h, l, v, b["scales"], b["rotate"], b["shear"], b["translate"],
                             b["interpolation_order"], b["channel_pos"])
      [] op = "zoom" ->
            zoom(h, l, v, b["tl"], b["height"], b["width"], b["channel_pos"], kw)
      [] op = "stretch" ->
            stretch(h, l, v, b["angle"], b["interpolation_order"], b["anti_aliasing"],
                    b["channel_pos"])

\* F.op(img, **keywords): the functional called by keyword.
CallFunctional(s, h, l, v) == Dispatch(s.op, h, l, v, BoundByKeyword(s), Keywords(s))

\* Class(...)(img): __call__ hands its attributes on positionally; Python
\* raises TypeError when a def is given more positional arguments than it has
\* parameters.
CallClass(s, h, l, v) ==
    IF Len(CallAttrs(s.op)) > Len(Params(s.op))
    THEN Raise(h, l, "TypeError")
    ELSE Dispatch(s.op, h, l, v, BoundByPosition(s), NoKeywords)

\* t(img) for a stage t of a pipeline.
Invoke(s, h, l, v) ==
    IF s.api = "class" THEN CallClass(s, h, l, v) ELSE CallFunctional(s, h, l, v)

(***************************************************************************)
(* The caller's inputs: images and pipelines.                              *)
(***************************************************************************)
Sides == (MaxSide - 1) .. MaxSide
Chans == {1, 2}
Layouts == {"first", "last"}

\* The shape of an array of H rows, W columns and C channels.
Physical(H, W, C, cp) == IF cp = "first" THEN <<C, H, W>> ELSE <<H, W, C>>

\* The caller's pixels: all different, none of them 0.
InitData(shape) == [k \in 1 .. Size(shape) |-> <<k>>]
InitHeap(shape) == <<[shape |-> shape, data |-> InitData(shape)]>>

Base(cp) ==
    [api |-> "func", op |-> "none", given |-> {},
     size |-> Int_(0), scale |-> Int_(0), tl |-> <<0, 0>>, height |-> 0, width |-> 0,
     val |-> 0, angle |-> 0, reshape |-> FALSE, interpolation_order |-> 0,
     anti_aliasing |-> FALSE, channel_pos |-> cp, mean |-> 0, std |-> 1,
     scales |-> <<>>, rotate |-> <<>>, shear |-> <<>>, translate |-> <<>>]

Optional ==
    {"interpolation_order", "anti_aliasing", "reshape", "channel_pos",
     "scales", "rotate", "shear", "translate"}

\* Every argument supplied / only those needed (channel_pos defaults to "first").
AllGiven(op) == {Params(op)[i] : i \in 1 .. Len(Params(op))} \cup ExtraKeywords(op)
MinGiven(op, cp) ==
    (AllGiven(op) \ Optional) \cup (IF cp = "last" THEN {"channel_pos"} ELSE {})

Call(api, op, cp, full) ==
    [Base(cp) EXCEPT !.api = api, !.op = op,
                     !.given = IF full THEN AllGiven(op) ELSE MinGiven(op, cp)]

Normalise_(api, cp, mean, std) ==
    [Call(api, "normalise", cp, TRUE) EXCEPT !.mean = mean, !.std = std]
Resize_(api, cp, full, size, order, aa) ==
    [Call(api, "resize", cp, full) EXCEPT !.size = size, !.interpolation_order = order,
                                          !.anti_aliasing = aa]
Rescale_(api, cp, scale) == [Call(api, "rescale", cp, TRUE) EXCEPT !.scale = scale]
Crop_(api, cp, tl, height, width) ==
    [Call(api, "crop", cp, TRUE) EXCEPT !.tl = tl, !.height = height, !.width = width]
Rotate_(api, cp, full, angle, reshape) ==
    [Call(api, "rotate", cp, full) EXCEPT !.angle = angle, !.reshape = reshape]
Erase_(api, cp, tl, height, width, val) ==
    [Call(api, "erase", cp, TRUE) EXCEPT !.tl = tl, !.height = height, !.width = width,
                                         !.val = val]
Shear_(api, cp, full, angle) == [Call(api, "shear", cp, full) EXCEPT !.angle = angle]
Affine_(api, cp, scales, rot, translate) ==
    [Call(api, "affine_transform", cp, TRUE) EXCEPT !.scales = scales, !.rotate = rot,
                                                    !.translate = translate]
Zoom_(api, cp, full, tl, height, width, aa) ==
    [Call(api, "zoom", cp, full) EXCEPT !.tl = tl, !.height = height, !.width = width,
                                        !.anti_aliasing = aa]
Stretch_(api, cp, full, angle) == [Call(api, "stretch", cp, full) EXCEPT !.angle = angle]

Apis == {"func", "class"}

\* The calls a pipeline may start with, on an image of H x W x C.
FirstStages(H, W, C, cp) ==
    {Normalise_(api, cp, 1, 1) : api \in Apis}
    \cup {Normalise_("func", cp, 0, 2)}
    \cup {Resize_("func", cp, TRUE, sz, 0, FALSE) :
            sz \in {Int_(MaxSide), Int_(MaxSide - 1), Tuple_(<<H, W>>), List_(<<H, W>>),
                    Tuple_(<<H, W, C>>), Tuple_(<<MaxSide, MaxSide - 1, C>>),
                    Tuple_(<<H, W, C + 1>>), List_(<<H, W, C>>),
                    Tuple_(Physical(H, W, C, cp))}}
    \cup {Resize_("func", cp, TRUE, Int_(MaxSide - 1), 0, TRUE),
          Resize_("func", cp, FALSE, Int_(MaxSide), 0, FALSE)}
    \cup {Resize_("class", cp, TRUE, sz, 0, FALSE) : sz \in {Int_(MaxSide), Tuple_(<<H, W>>)}}
    \cup {Rescale_("func", cp, sc) :
            sc \in {[t |-> "int", v |-> <<1>>], [t |-> "int", v |-> <<2>>],
                    [t |-> "float", v |-> <<1, 2>>], [t |-> "tuple", v |-> <<2, 1, 2, 1>>],
                    [t |-> "list", v |-> <<1, 1, 1, 1>>],
                    [t |-> "ndarray", v |-> <<3, 2, 1, 1>>]}}
    \cup {Rescale_("class", cp, [t |-> "float", v |-> <<1, 2>>])}
    \cup {Crop_("func", cp, b[1], b[2], b[3]) :
            b \in {<<<<0, 0>>, H, W>>, <<<<1, 1>>, 1, 1>>,
                   <<<<1, 1>>, MaxSide - 1, MaxSide - 1>>, <<<<0, 1>>, 2, 1>>,
                   <<<<1, 0>>, 1, 2>>, <<<<0 - 1, 0>>, 1, 2>>, <<<<0 - 2, 0>>, 1, 2>>,
                   <<<<0, 0 - 1>>, 2, 1>>, <<<<MaxSide - 1, 0>>, 2, 1>>}}
    \cup {Crop_("class", cp, <<1, 0>>, 1, 2), Crop_("class", cp, <<0, 1>>, MaxSide, 1)}
    \cup {Call(api, op, cp, TRUE) : api \in Apis, op \in {"hflip", "vflip"}}
    \cup {Rotate_("func", cp, TRUE, 1, TRUE), Rotate_("func", cp, TRUE, 1, FALSE),
          Rotate_("func", cp, FALSE, 2, FALSE), Rotate_("class", cp, TRUE, 1, TRUE)}
    \cup {Erase_("func", cp, b[1], b[2], b[3], 0) :
            b \in {<<<<0, 0>>, 1, 1>>, <<<<1, 0>>, 1, 2>>, <<<<0, 1>>, 2, 1>>,
                   <<<<1, 1>>, MaxSide - 1, MaxSide - 1>>, <<<<0 - 1, 0 - 1>>, 1, 1>>,
                   <<<<0 - 2, 0>>, 1, 1>>}}
    \cup {Erase_("class", cp, <<1, 0>>, 1, 2, 0)}
    \cup {Shear_("func", cp, TRUE, 1), Shear_("func", cp, FALSE, 1), Shear_("class", cp, TRUE, 1)}
    \cup {Affine_("func", cp, <<>>, <<>>, <<>>), Affine_("func", cp, <<2, 2>>, <<>>, <<>>),
          Affine_("func", cp, <<>>, <<1>>, <<1, 0>>), Affine_("class", cp, <<2, 2>>, <<>>, <<>>)}
    \cup {Zoom_("func", cp, full, b[1], b[2], b[3], FALSE) :
            full \in BOOLEAN,
            b \in {<<<<0, 0>>, 2, 2>>, <<<<1, 1>>, MaxSide - 1, MaxSide - 1>>}}
    \cup {Zoom_("func", cp, TRUE, <<1, 0>>, 1, 2, FALSE),
          Zoom_("func", cp, TRUE, <<0, 0>>, H, W, TRUE),
          Zoom_("func", cp, TRUE, <<0 - 1, 0>>, 1, 2, FALSE),
          Zoom_("class", cp, TRUE, <<0, 0>>, 2, 2, FALSE),
          Zoom_("class", cp, FALSE, <<0, 0>>, 2, 2, FALSE)}
    \cup {Stretch_("func", cp, TRUE, 1), Stretch_("func", cp, FALSE, 1),
          Stretch_("class", cp, TRUE, 1)}

\* The calls that may follow.
LaterStages(cp) ==
    {Erase_("class", cp, <<0, 0>>, 1, 1, 0), Call("func", "hflip", cp, TRUE),
     Crop_("class", cp, <<0, 0>>, 1, 2)}

RECURSIVE Tails(_, _)
Tails(cp, n) ==
    IF n = 0 THEN {<<>>}
    ELSE {<<>>} \cup {<<s>> \o t : s \in LaterStages(cp), t \in Tails(cp, n - 1)}

Pipelines(H, W, C, cp) ==
    {<<>>} \cup {<<s>> \o t : s \in FirstStages(H, W, C, cp), t \in Tails(cp, MaxStages - 1)}

(***************************************************************************)
(* transforms.py, Compose.                                                 *)
(***************************************************************************)
NoCall == [arg |-> NoArray, heap |-> <<>>, lib |-> <<>>]

Init ==
    \E H \in Sides, W \in Sides, C \in Chans, cp \in Layouts :
        /\ layout = cp
        /\ img0 = Whole(1, Physical(H, W, C, cp))
        /\ heap = InitHeap(Physical(H, W, C, cp))
        /\ lib = <<>>
        /\ transforms \in Pipelines(H, W, C, cp)
        /\ pc = 0
        /\ img = img0
        /\ status = "running"
        /\ err = "none"
        /\ trace = <<>>
        /\ last = NoCall

\* The loop running over reversed(self.transforms).
NextStage_Reversed == transforms[Len(transforms) - pc]

\* The stage the loop of Compose.__call__ invokes next.
NextStage == transforms[pc + 1]

\* One iteration of "for t in self.transforms: img = t(img)", t being a call
\* of op.  An exception leaves the loop and __call__.
Step(op) ==
    /\ status = "running"
    /\ pc < Len(transforms)
    /\ NextStage.op = op
    /\ LET r == Invoke(NextStage, heap, lib, img)
       IN /\ heap' = r.heap
          /\ lib' = r.lib
          /\ img' = IF r.err = "none" THEN r.out ELSE img
          /\ status' = IF r.err = "none" THEN "running" ELSE "raised"
          /\ err' = r.err
    /\ pc' = pc + 1
    /\ trace' = Append(trace, pc + 1)
    /\ last' = [arg |-> img, heap |-> heap, lib |-> lib]
    /\ UNCHANGED <<layout, img0, transforms>>

Normalise == Step("normalise")
Resize == Step("resize")
Rescale == Step("rescale")
Crop == Step("crop")
HorizontalFlip == Step("hflip")
VerticalFlip == Step("vflip")
Rotate == Step("rotate")
Erase == Step("erase")
Shear == Step("shear")
AffineTransform == Step("affine_transform")
Zoom == Step("zoom")
Stretch == Step("stretch")

\* "return img" after the last stage.
Return ==
    /\ status = "running"
    /\ pc = Len(transforms)
    /\ status' = "returned"
    /\ UNCHANGED <<heap, lib, layout, img0, transforms, pc, img, err, trace, last>>

Next ==
    \/ Normalise
    \/ Resize
    \/ Rescale
    \/ Crop
    \/ HorizontalFlip
    \/ VerticalFlip
    \/ Rotate
    \/ Erase
    \/ Shear
    \/ AffineTransform
    \/ Zoom
    \/ Stretch
    \/ Return

Spec == Init /\ [][Next]_vars

(***************************************************************************)
(* Vocabulary of the properties.                                           *)
(***************************************************************************)
\* The latest stage invoked, and whether it was a call of op.
Stage == transforms[pc]
Called(op) == pc >= 1 /\ Stage.op = op
Returned(op) == Called(op) /\ err = "none"

\* Height, width and channel count of an array in the caller's layout, and
\* the index of row y, column x, channel c.
Canon(v) == ToCanonical(v, layout).shape
At(y, x, c) == IF layout = "first" THEN <<c, y, x>> ELSE <<y, x, c>>
ChanOf(i) == IF layout = "first" THEN i[1] ELSE i[3]
ChanAxis == IF layout = "first" THEN 1 ELSE 3

\* The box of the latest stage lies within the array it was applied to.
BoxInBounds ==
    /\ 0 <= Stage.tl[1]
    /\ 0 <= Stage.tl[2]
    /\ 0 <= Stage.height
    /\ 0 <= Stage.width
    /\ Stage.tl[1] + Stage.height <= Canon(last.arg)[1]
    /\ Stage.tl[2] + Stage.width <= Canon(last.arg)[2]

GeometricOps ==
    {"resize", "rescale", "crop", "hflip", "vflip", "rotate", "erase", "shear",
     "affine_transform", "zoom", "stretch"}

\* C1: every geometric operation that returns gives an array with its channel
\* axis where the input has it, holding as many channels: the count on that
\* axis is the input's, a returned view has the buffer's channel axis there,
\* and the values a resampling of this call computed are indexed by channel
\* on that axis.
C1_LayoutPreserved ==
    (pc >= 1 /\ err = "none" /\ Stage.op \in GeometricOps) =>
        /\ img.shape[ChanAxis] = last.arg.shape[ChanAxis]
        /\ img.buf = last.arg.buf => img.ax[ChanAxis] = last.arg.ax[ChanAxis]
        /\ \A i \in Indices(img.shape) :
               LET p == Read(heap, img, i)
               IN (Len(p) = 4 /\ p[1] > Len(last.lib)) => p[4] = ChanOf(i)

\* C1 witness: zoom returned on a channel-first image whose channel count
\* differs from its width, so that the two layouts differ in shape.
C1_Witness ==
    /\ Returned("zoom")
    /\ layout = "first"
    /\ img.shape[1] # img.shape[3]
    /\ img.buf # last.arg.buf

\* C2: crop raises for every box that is not within the image, negative
\* corners included.
C2_CropRejectsEveryOutsideBox ==
    (Called("crop") /\ ~BoxInBounds) => err = "IndexError"

\* C3: for a box within the image crop returns height x width pixels, pixel
\* (c, i, j) being the input's pixel (c, top + i, left + j).
C3_CropExtractsBox ==
    (Called("crop") /\ BoxInBounds) =>
        /\ err = "none"
        /\ Canon(img) = <<Stage.height, Stage.width, Canon(last.arg)[3]>>
        /\ \A i \in Indices(Canon(img)) :
               Read(heap, img, At(i[1], i[2], i[3]))
                   = Read(last.heap, last.arg,
                          At(Stage.tl[1] + i[1], Stage.tl[2] + i[2], i[3]))
        /\ heap = last.heap

\* C3 witness: a crop with a corner off the origin returned in each layout is
\* reached; this one is channel-first.
C3_Witness ==
    /\ Returned("crop")
    /\ BoxInBounds
    /\ layout = "first"
    /\ Stage.tl = <<1, 0>>
    /\ Size(img.shape) > 0

\* The target shape resize is to derive from its size argument.
SizeTarget(size, C) ==
    IF Len(size.v) = 1 THEN <<size.v[1], size.v[1], C>>
    ELSE IF Len(size.v) = 2 THEN <<size.v[1], size.v[2], C>>
    ELSE size.v

\* C4: resize takes a scalar, a 2-element or a 3-element size, tuple or list,
\* rejects a 3-element size of another channel count, and otherwise returns an
\* array of the target shape.
C4_ResizeNormalisesSize ==
    Called("resize") =>
        LET C == Canon(last.arg)[3]
            target == SizeTarget(Stage.size, C)
        IN IF target[3] # C
           THEN err # "none"
           ELSE err = "none" /\ Canon(img) = target

\* C5: resize to the image's own spatial shape (H, W) with order 0 and no
\* anti-aliasing returns the image unchanged.
C5_ResizeToOwnShapeIsIdentity ==
    (/\ Called("resize")
     /\ Stage.size = Tuple_(<<Canon(last.arg)[1], Canon(last.arg)[2]>>)
     /\ Stage.interpolation_order = 0
     /\ "interpolation_order" \in Stage.given
     /\ ~Stage.anti_aliasing) =>
        /\ err = "none"
        /\ img.shape = last.arg.shape
        /\ Contents(heap, img) = Contents(last.heap, last.arg)

\* The factors (y, x) of a scale, as fractions.
ScaleYX(scale) ==
    IF Len(scale.v) = 1 THEN <<scale.v[1], 1, scale.v[1], 1>>
    ELSE IF Len(scale.v) = 2 THEN scale.v \o scale.v
    ELSE scale.v

\* C6: rescale returns an array of round(sy * H) x round(sx * W) pixels with
\* the channels of the input.
C6_RescaleShape ==
    Called("rescale") =>
        LET f == ScaleYX(Stage.scale)
            in == Canon(last.arg)
        IN /\ err = "none"
           /\ Canon(img) = <<RoundHalfEven(f[1] * in[1], f[2]),
                             RoundHalfEven(f[3] * in[2], f[4]), in[3]>>

\* Is pixel (y, x) inside the box of the latest stage?
InBox(y, x) ==
    /\ Stage.tl[1] <= y /\ y < Stage.tl[1] + Stage.height
    /\ Stage.tl[2] <= x /\ x < Stage.tl[2] + Stage.width

\* C7: erase with a box within the image returns the array it was given,
\* the same view of the same buffer, after writing val over the box in every
\* channel and leaving every other pixel as it was.
C7_EraseInPlace ==
    (Called("erase") /\ BoxInBounds) =>
        /\ err = "none"
        /\ img = last.arg
        /\ Len(heap) = Len(last.heap)
        /\ \A i \in Indices(Canon(last.arg)) :
               Read(heap, last.arg, At(i[1], i[2], i[3]))
                   = IF InBox(i[1], i[2]) THEN <<Stage.val>>
                     ELSE Read(last.heap, last.arg, At(i[1], i[2], i[3]))

\* C7 witness: an erase of a box off the origin, on a channel-first array.
C7_Witness ==
    /\ Returned("erase")
    /\ BoxInBounds
    /\ layout = "first"
    /\ Stage.tl = <<1, 0>>
    /\ \E i \in Indices(last.arg.shape) : Read(heap, last.arg, i) # Read(last.heap, last.arg, i)
    /\ \E i \in Indices(last.arg.shape) : Read(heap, last.arg, i) = Read(last.heap, last.arg, i)

\* C8: an erase applied to what an operation other than erase returned (a
\* crop being given a corner in the image) leaves every pixel of that
\* operation's input as it was.
C8_ResultsShareNoStorage ==
    (/\ pc = 2
     /\ err = "none"
     /\ transforms[1].op # "erase"
     /\ transforms[1].tl[1] >= 0
     /\ transforms[1].tl[2] >= 0
     /\ transforms[2].op = "erase") =>
        Contents(heap, img0) = InitData(img0.shape)

\* tn(...t2(t1(img))...): the stages of ts from stage k on, applied in order
\* until one raises; n counts the stages invoked.
RECURSIVE RunFrom(_, _, _, _, _)
RunFrom(ts, k, h, l, v) ==
    IF k > Len(ts) THEN [err |-> "none", out |-> v, heap |-> h, lib |-> l, n |-> k - 1]
    ELSE LET r == Invoke(ts[k], h, l, v)
         IN IF r.err # "none"
            THEN [err |-> r.err, out |-> v, heap |-> r.heap, lib |-> r.lib, n |-> k]
            ELSE RunFrom(ts, k + 1, r.heap, r.lib, r.out)

\* C9: Compose invokes its stages in list order, each once, each on the
\* result of the one before; it returns tn(...t1(img)...), which is img for
\* an empty list; an exception of stage k leaves Compose with stage k the
\* last one invoked.
C9_ComposeInOrder ==
    LET r == RunFrom(transforms, 1, InitHeap(img0.shape), <<>>, img0)
    IN /\ trace = [i \in 1 .. pc |-> i]
       /\ status = "returned" =>
              /\ r.err = "none"
              /\ pc = Len(transforms)
              /\ img = r.out
              /\ heap = r.heap
              /\ lib = r.lib
       /\ status = "raised" =>
              /\ err = r.err
              /\ err # "none"
              /\ pc = r.n
              /\ heap = r.heap
       /\ (status = "returned" /\ transforms = <<>>) => img = img0

\* C9 witness: a pipeline of two stages whose order matters has returned.
C9_Witness ==
    /\ status = "returned"
    /\ Len(transforms) = 2
    /\ transforms[1].op = "hflip"
    /\ transforms[2].op = "crop"
    /\ Contents(heap, img) # Contents(heap, img0)

\* The configured object s, as the keywords of a call of its functional: the
\* constructor's parameters, each with the value the constructor bound.
AsKeywords(s) ==
    [n \in DOMAIN s |->
        IF n = "given" THEN AllGiven(s.op)
        ELSE IF n \in ParamNames /\ n \notin s.given THEN CtorDefault(s, n)
        ELSE s[n]]

\* C10: calling a configured object has the outcome of calling its
\* functional with the parameters bound at construction.
C10_ClassCallsFunctional ==
    (pc >= 1 /\ Stage.api = "class") =>
        LET r == CallFunctional(AsKeywords(Stage), last.heap, last.lib, last.arg)
        IN /\ err = r.err
           /\ err = "none" => img = r.out
           /\ heap = r.heap
           /\ lib = r.lib

\* crop(img, tl, height, width, channel_pos) followed by resize(., size,
\* channel_pos) with resize's other parameters left to their defaults, both
\* called as the public functionals, on array v.
CropThenResize(s, size, h, l, v) ==
    RunFrom(<<Crop_("func", s.channel_pos, s.tl, s.height, s.width),
              Resize_("func", s.channel_pos, FALSE, size, 0, FALSE)>>,
            1, h, l, v)

\* The latest stage called zoom with resize's parameters left to their defaults.
ZoomWithDefaults ==
    Called("zoom") /\ Stage.api = "func" /\ Stage.given \cap ExtraKeywords("zoom") = {}

\* C11: in both layouts and for every box, zoom(img, tl, height, width,
\* channel_pos) has the outcome of resize(crop(img, tl, height, width,
\* channel_pos), size = img.shape, channel_pos): for a box within the image the
\* same array, of the shape of img; for any other box the bounds error of crop.
C11_ZoomIsCropThenResize ==
    ZoomWithDefaults =>
        LET r == CropThenResize(Stage, Tuple_(last.arg.shape), last.heap, last.lib, last.arg)
        IN /\ err = r.err
           /\ lib = r.lib
           /\ err = "none" =>
                  /\ img.shape = r.out.shape
                  /\ Contents(heap, img) = Contents(r.heap, r.out)
           /\ BoxInBounds => (err = "none" /\ img.shape = last.arg.shape)
           /\ ~BoxInBounds => err = "IndexError"

\* shear(img, angle, interpolation_order, channel_pos) followed by resize(.,
\* size, interpolation_order, anti_aliasing, channel_pos), both called as the
\* public functionals with the arguments b, on array v.
ShearThenResize(b, size, h, l, v) ==
    RunFrom(<<[Shear_("func", b["channel_pos"], TRUE, b["angle"])
                  EXCEPT !.interpolation_order = b["interpolation_order"]],
              Resize_("func", b["channel_pos"], TRUE, size, b["interpolation_order"],
                      b["anti_aliasing"])>>,
            1, h, l, v)

\* C12: in both layouts stretch(img, angle, interpolation_order, anti_aliasing,
\* channel_pos) returns what resize(shear(img, angle, interpolation_order,
\* channel_pos), size = img.shape, interpolation_order, anti_aliasing,
\* channel_pos) returns, an array of the shape of img.
C12_StretchIsShearThenResize ==
    (Called("stretch") /\ Stage.api = "func") =>
        LET r == ShearThenResize(BoundByKeyword(Stage), Tuple_(last.arg.shape),
                                 last.heap, last.lib, last.arg)
        IN /\ err = r.err
           /\ lib = r.lib
           /\ err = "none"
           /\ img.shape = r.out.shape
           /\ Contents(heap, img) = Contents(r.heap, r.out)
           /\ img.shape = last.arg.shape

Flips == {"hflip", "vflip"}

\* The pixel of the input that a flip is to put at row y, column x.
FlipSource(op, shape, y, x) ==
    IF op = "hflip" THEN <<y, shape[2] - 1 - x>> ELSE <<shape[1] - 1 - y, x>>

\* C13: in both layouts hflip mirrors the width axis only and vflip the height
\* axis only, every channel staying in place, and each is an involution: a
\* second application with the same channel_pos gives back the image the
\* first one was given.
C13_FlipsAreInvolutions ==
    /\ (pc >= 1 /\ Stage.op \in Flips) =>
           /\ err = "none"
           /\ img.shape = last.arg.shape
           /\ \A i \in Indices(Canon(img)) :
                  LET s == FlipSource(Stage.op, Canon(img), i[1], i[2])
                  IN Read(heap, img, At(i[1], i[2], i[3]))
                         = Read(last.heap, last.arg, At(s[1], s[2], i[3]))
           /\ LET r == Invoke(Stage, heap, lib, img)
              IN /\ r.err = "none"
                 /\ r.out.shape = last.arg.shape
                 /\ Contents(r.heap, r.out) = Contents(last.heap, last.arg)
    /\ (pc = 2 /\ transforms[1].op \in Flips /\ transforms[2].op = transforms[1].op) =>
           /\ img.shape = img0.shape
           /\ Contents(heap, img) = InitData(img0.shape)

\* C13 witness: hflip applied twice to a channel-first image whose height,
\* width and channel count are not all the same; the first application
\* changed the image, the second gave it back.
C13_Witness ==
    /\ pc = 2
    /\ transforms[1].op = "hflip"
    /\ Returned("hflip")
    /\ layout = "first"
    /\ img0.shape[1] # img0.shape[2]
    /\ Contents(last.heap, last.arg) # InitData(img0.shape)
    /\ Contents(heap, img) = InitData(img0.shape)

\* factor * (d + 1/2) - 1/2 with factor = n_in / n_out, as the fraction <<p, q>>.
CentreCorrect(n_in, n_out, d) == <<n_in * (2 * d + 1) - n_out, 2 * n_out>>

\* Is p1/q1 = p2/q2?  The denominators are positive.
SameNumber(a, b) == a[1] * b[2] = b[1] * a[2]

\* The source coordinate the fitted map s * d + t gives output coordinate d.
MapsTo(s, t, d) == <<s[1] * d + t * s[2], s[2]>>

\* C14: the inverse map resize hands to warp is src = factor * (dst + 1/2) -
\* 1/2 on each spatial axis, fractions kept: it takes the reference corners of
\* the output grid there exactly, and with order 0 every output pixel (y, x)
\* is the input pixel nearest (fy * (y + 1/2) - 1/2, fx * (x + 1/2) - 1/2), or
\* 0 outside the input.
C14_ResizeMapIsCentreCorrect ==
    Returned("resize") =>
        LET in == Canon(last.arg)
            out == Canon(img)
            t == ResizeTform(in, out)
            fy(y) == CentreCorrect(in[1], out[1], y)
            fx(x) == CentreCorrect(in[2], out[2], x)
            order == (IF Stage.api = "class" THEN BoundByPosition(Stage)
                      ELSE BoundByKeyword(Stage))["interpolation_order"]
            src(i) == <<RoundHalfAway(fy(i[1])[1], fy(i[1])[2]),
                        RoundHalfAway(fx(i[2])[1], fx(i[2])[2])>>
            inside(p) == 0 <= p[1] /\ p[1] < in[1] /\ 0 <= p[2] /\ p[2] < in[2]
        IN /\ t.ok
           /\ \A x \in {0, out[2] - 1} : SameNumber(MapsTo(t.sx, t.tx, x), fx(x))
           /\ \A y \in {0, out[1] - 1} : SameNumber(MapsTo(t.sy, t.ty, y), fy(y))
           /\ order = 0 =>
                  \A i \in Indices(out) :
                      (~IsHalf(fy(i[1])[1], fy(i[1])[2]) /\ ~IsHalf(fx(i[2])[1], fx(i[2])[2])) =>
                          Read(heap, img, At(i[1], i[2], i[3]))
                              = IF inside(src(i))
                                THEN Read(last.heap, last.arg, At(src(i)[1], src(i)[2], i[3]))
                                ELSE <<0>>

\* C15: erase raises for no box; for every corner, negative coordinates
\* included, and every height and width it writes val over exactly the pixels
\* of the box that lie in the image, and leaves every other pixel as it was.
C15_EraseTruncatesSilently ==
    Called("erase") =>
        /\ err = "none"
        /\ \A i \in Indices(Canon(last.arg)) :
               Read(heap, last.arg, At(i[1], i[2], i[3]))
                   = IF InBox(i[1], i[2]) THEN <<Stage.val>>
                     ELSE Read(last.heap, last.arg, At(i[1], i[2], i[3]))

====
